---- MODULE Spec2Model ----
(***************************************************************************)
(* InlineSvgLazyLoader: a placeholder element is observed with an          *)
(* IntersectionObserver; on an intersecting entry its SVG is fetched,      *)
(* sanitized and swapped in for the placeholder.                           *)
(*                                                                         *)
(* The repository holds two variants of the widget:                        *)
(*   "A"  src/unnamed/part_000      one instance per element, getSvg has a *)
(*                                  finally block                          *)
(*   "B"  src/webpack.config.js     one instance per selector, getSvg has  *)
(*                                  no finally block                       *)
(*                                                                         *)
(* Strings that the code parses (data-remove-attrs, data-add-attrs, the    *)
(* flags, attribute names and values) are sequences of one-character       *)
(* strings.  The text of a response is represented by the forest of        *)
(* elements DOMParser builds from it.                                      *)
(***************************************************************************)
EXTENDS Integers, Sequences, FiniteSets

\* ------------------------------------------------------------------ bounds

\* Placeholder elements in the document before the widget is constructed.
NElems == 2
\* Entries one delivery of the observer callback may hold.
MaxBatch == 2
\* Times the page calls the widget's constructor.
MaxConstructs == 2
\* getSvg calls made in one run, over all placeholders.
MaxCalls == 2

Elems == 1..NElems

\* -------------------------------------------------------------- characters

Lower == {"a","b","c","d","e","f","g","h","i","j","k","l","m",
          "n","o","p","q","r","s","t","u","v","w","x","y","z"}
Upper == {"A","B","C","D","E","F","G","H","I","J","K","L","M",
          "N","O","P","Q","R","S","T","U","V","W","X","Y","Z"}
Digit == {"0","1","2","3","4","5","6","7","8","9"}
\* \s of a JavaScript regular expression, and what String.trim strips: 25
\* characters. A character that a string of this module cannot spell is
\* named by its code point.
Whitespace ==
    {"\t", "\n", "U+000B", "\f", "\r", " ", "U+00A0", "U+1680",
     "U+2000", "U+2001", "U+2002", "U+2003", "U+2004", "U+2005", "U+2006",
     "U+2007", "U+2008", "U+2009", "U+200A", "U+2028", "U+2029", "U+202F",
     "U+205F", "U+3000", "U+FEFF"}
\* \w
WordChar == Lower \cup Upper \cup Digit \cup {"_"}
\* the class [\w\d\-\s*] of attrsWithoutExtraSymbols
PairChar == WordChar \cup Digit \cup {"-", "*"} \cup Whitespace

\* ----------------------------------------------------------------- strings

RECURSIVE TrimStart(_)
TrimStart(s) ==
    IF s # <<>> /\ Head(s) \in Whitespace THEN TrimStart(Tail(s)) ELSE s

RECURSIVE TrimEnd(_)
TrimEnd(s) ==
    IF s # <<>> /\ s[Len(s)] \in Whitespace
    THEN TrimEnd(SubSeq(s, 1, Len(s) - 1))
    ELSE s

\* String.prototype.trim
Trim(s) == TrimEnd(TrimStart(s))

\* String.prototype.split(sep) for a one-character separator: the pieces
\* between separators, empty pieces included, always at least one piece.
RECURSIVE SplitFrom(_, _, _)
SplitFrom(s, sep, piece) ==
    IF s = <<>> THEN <<piece>>
    ELSE IF Head(s) = sep
         THEN <<piece>> \o SplitFrom(Tail(s), sep, <<>>)
         ELSE SplitFrom(Tail(s), sep, Append(piece, Head(s)))

Split(s, sep) == SplitFrom(s, sep, <<>>)

\* Number to string, as setAttribute(name, number) stringifies it.
DigitChars == <<"0","1","2","3","4","5","6","7","8","9">>

RECURSIVE NumberToString(_)
NumberToString(n) ==
    IF n < 10 THEN <<DigitChars[n + 1]>>
    ELSE Append(NumberToString(n \div 10), DigitChars[(n % 10) + 1])

\* ---------------------------------------------- the add-attributes pattern

\* End of the longest run of PairChar characters that starts at s[i].
RECURSIVE RunEnd(_, _)
RunEnd(s, i) ==
    IF i < Len(s) /\ s[i + 1] \in PairChar THEN RunEnd(s, i + 1) ELSE i

\* /([\w\d\-\s*]+):\s*[\w\d\-\s*]+/ tried at position p: the index of the
\* match's last character, 0 when there is no match at p.  The first group
\* is greedy and cannot hold ':', so it takes the whole run; \s* and the
\* last class together take the whole run after the colon.
MatchEndAt(s, p) ==
    IF s[p] \notin PairChar THEN 0
    ELSE LET q == RunEnd(s, p)
         IN  IF q + 2 <= Len(s) /\ s[q + 1] = ":" /\ s[q + 2] \in PairChar
             THEN RunEnd(s, q + 2)
             ELSE 0

\* String.prototype.match with the g flag: every match, left to right,
\* each search resuming after the previous match.
RECURSIVE MatchFrom(_, _)
MatchFrom(s, i) ==
    IF i > Len(s) THEN <<>>
    ELSE LET r == MatchEndAt(s, i)
         IN  IF r > 0
             THEN <<SubSeq(s, i, r)>> \o MatchFrom(s, r + 1)
             ELSE MatchFrom(s, i + 1)

\* The list match() returns; the empty list stands for its null.
MatchPairs(s) == MatchFrom(s, 1)

\* /^on\w*/i
StartsWithOn(name) ==
    /\ Len(name) >= 2
    /\ name[1] \in {"o", "O"}
    /\ name[2] \in {"n", "N"}

\* The names Element.setAttribute accepts (XML Name, restricted to the
\* characters a matched pair can hold); any other name makes it throw
\* InvalidCharacterError.
ValidAttrName(name) ==
    /\ name # <<>>
    /\ name[1] \in Lower \cup Upper \cup {"_"}
    /\ \A i \in 1..Len(name) : name[i] \in WordChar \cup {"-"}

\* --------------------------------------------------------------- DOM nodes

\* An element: its tag, its attributes (a function from names to values)
\* and its child elements.
Node(tag, attrs, kids) == [tag |-> tag, attrs |-> attrs, kids |-> kids]

\* JavaScript's null where a node is expected.
NullNode == Node("#null", <<>>, <<>>)

NoAttrs == [n \in {} |-> <<>>]

SetAttribute(node, name, value) ==
    [node EXCEPT !.attrs =
        [n \in (DOMAIN node.attrs) \cup {name} |->
            IF n = name THEN value ELSE node.attrs[n]]]

RemoveAttribute(node, name) ==
    [node EXCEPT !.attrs = [n \in (DOMAIN node.attrs) \ {name} |-> node.attrs[n]]]

\* querySelector(tag) over a forest: the first element in document order.
RECURSIVE QuerySelector(_, _)
QuerySelector(forest, tag) ==
    IF forest = <<>> THEN NullNode
    ELSE LET h == Head(forest)
         IN  IF h.tag = tag THEN h
             ELSE LET inner == QuerySelector(h.kids, tag)
                  IN  IF inner # NullNode THEN inner
                      ELSE QuerySelector(Tail(forest), tag)

\* Whether a forest holds an element with this tag, at any depth.
RECURSIVE HasDescendant(_, _)
HasDescendant(forest, tag) ==
    /\ forest # <<>>
    /\ \/ Head(forest).tag = tag
       \/ HasDescendant(Head(forest).kids, tag)
       \/ HasDescendant(Tail(forest), tag)

\* The forest after script.remove() on every element querySelectorAll(tag)
\* returned: each such element goes, with its subtree.
RECURSIVE RemoveAllByTag(_, _)
RemoveAllByTag(forest, tag) ==
    IF forest = <<>> THEN <<>>
    ELSE LET h == Head(forest)
             rest == RemoveAllByTag(Tail(forest), tag)
         IN  IF h.tag = tag THEN rest
             ELSE <<[h EXCEPT !.kids = RemoveAllByTag(h.kids, tag)]>> \o rest

\* ------------------------------------------------- placeholder and document

\* A data-* attribute of the placeholder: dataset.x is undefined when the
\* attribute is absent, and a string (possibly empty) when it is present.
Absent == [has |-> FALSE, v |-> <<>>]
Data(s) == [has |-> TRUE, v |-> s]

\* JavaScript truthiness of a dataset value: a non-empty string.
Truthy(d) == d.has /\ d.v # <<>>

\* options.loadingClass of the default options
LoadingClass == "js-svg-loading"

\* The children of the placeholders' parent node, in order.  An entry is a
\* placeholder (kind "img") or an SVG root that replaced placeholder id
\* (kind "svg"); id 0 is a node of the page that is no placeholder.
ImgEntry(e) == [kind |-> "img", id |-> e, node |-> NullNode]
OtherEntry == [kind |-> "other", id |-> 0, node |-> NullNode]
SvgEntry(e, svg) == [kind |-> "svg", id |-> e, node |-> svg]

\* Whether the placeholder is a child of the parent node.
IsChild(d, e) == \E i \in 1..Len(d) : d[i] = ImgEntry(e)

\* The guard of the swap: imageEl.parentNode is not null.
HasParentAlways(d, e) == TRUE
HasParent(d, e) == IsChild(d, e)

IndexOf(d, e) == CHOOSE i \in 1..Len(d) : d[i] = ImgEntry(e)

\* document.querySelectorAll('.' + selector): the placeholders in the document
querySelectorAllAny(d) == Elems
querySelectorAll(d) == {e \in Elems : IsChild(d, e)}

RemoveAt(d, i) == SubSeq(d, 1, i - 1) \o SubSeq(d, i + 1, Len(d))

\* The outcome of a step that may throw: threw, the (possibly mutated) SVG
\* root, and the document.
Result(threw, svg, d) == [threw |-> threw, svg |-> svg, doc |-> d]

\* parentNode.replaceChild(svg, imageEl): throws TypeError when svg is null
\* or there is no parent, NotFoundError when imageEl is not a child.
\* (ReplaceChildAtEnd: the placeholder removed and the SVG appended.)
ReplaceChildAtEnd(d, svg, e) ==
    IF svg = NullNode \/ ~IsChild(d, e) THEN Result(TRUE, svg, d)
    ELSE Result(FALSE, svg, Append(RemoveAt(d, IndexOf(d, e)), SvgEntry(e, svg)))
ReplaceChildInsertBefore(d, svg, e) ==
    IF svg = NullNode \/ ~IsChild(d, e) THEN Result(TRUE, svg, d)
    ELSE Result(FALSE, svg,
                SubSeq(d, 1, IndexOf(d, e) - 1) \o << SvgEntry(e, svg) >>
                    \o SubSeq(d, IndexOf(d, e), Len(d)))
ReplaceChildUnchecked(d, svg, e) ==
    IF ~IsChild(d, e) THEN Result(TRUE, svg, d)
    ELSE Result(FALSE, svg, [d EXCEPT ![IndexOf(d, e)] = SvgEntry(e, svg)])
ReplaceChild(d, svg, e) ==
    IF svg = NullNode \/ ~IsChild(d, e) THEN Result(TRUE, svg, d)
    ELSE Result(FALSE, svg, [d EXCEPT ![IndexOf(d, e)] = SvgEntry(e, svg)])

\* ------------------------------------------------------ sanitize/transform

\* parseSvgStringToHtml: the text is parsed as text/html and the first svg
\* element of the resulting document is returned, null when there is none.
parseSvgStringToHtml(text) == QuerySelector(text, "svg")

\* removeAttribute for each trimmed name of the comma-separated list.
RECURSIVE RemoveEachUntrimmed(_, _)
RemoveEachUntrimmed(svg, names) ==
    IF names = <<>> THEN svg
    ELSE RemoveEachUntrimmed(RemoveAttribute(svg, Head(names)), Tail(names))
RECURSIVE RemoveEach(_, _)
RemoveEach(svg, names) ==
    IF names = <<>> THEN svg
    ELSE RemoveEach(RemoveAttribute(svg, Trim(Head(names))), Tail(names))

removeAttrs(svg, el, d) ==
    IF ~Truthy(el.dataset.removeAttrs) THEN Result(FALSE, svg, d)
    ELSE IF svg = NullNode THEN Result(TRUE, svg, d)
    ELSE Result(FALSE, RemoveEach(svg, Split(el.dataset.removeAttrs.v, ",")), d)

\* The root's attributes that do not match /^on\w*/i.
RECURSIVE StripOnDeep(_)
StripOnDeep(svg) ==
    [tag |-> svg.tag,
     attrs |-> [n \in {m \in DOMAIN svg.attrs : ~StartsWithOn(m)} |-> svg.attrs[n]],
     kids |-> [i \in 1..Len(svg.kids) |-> StripOnDeep(svg.kids[i])]]
StripOn(svg) ==
    [svg EXCEPT !.attrs =
        [n \in {m \in DOMAIN svg.attrs : ~StartsWithOn(m)} |-> svg.attrs[n]]]

removeScriptsKeepOn(svg, el, d) ==
    IF ~Truthy(el.dataset.removeScripts) THEN Result(FALSE, svg, d)
    ELSE IF svg = NullNode THEN Result(TRUE, svg, d)
    ELSE Result(FALSE, [svg EXCEPT !.kids = RemoveAllByTag(svg.kids, "script")], d)
removeScripts(svg, el, d) ==
    IF ~Truthy(el.dataset.removeScripts) THEN Result(FALSE, svg, d)
    ELSE IF svg = NullNode THEN Result(TRUE, svg, d)
    ELSE Result(FALSE,
                StripOn([svg EXCEPT !.kids = RemoveAllByTag(svg.kids, "script")]),
                d)

\* attrsArray.forEach: each matched pair is split at ':' and set; setting an
\* attribute on null or with an invalid name throws and ends the loop, the
\* attributes set before it stay set.
RECURSIVE SetEach(_, _, _)
SetEach(svg, pairs, d) ==
    IF pairs = <<>> THEN Result(FALSE, svg, d)
    ELSE LET parts == Split(Head(pairs), ":")
             attrName == Trim(parts[1])
             attrValue == Trim(parts[2])
         IN  IF svg = NullNode \/ ~ValidAttrName(attrName)
             THEN Result(TRUE, svg, d)
             ELSE SetEach(SetAttribute(svg, attrName, attrValue), Tail(pairs), d)

\* match() returns null when nothing matches, and null.forEach throws.
addAttrs(svg, el, d) ==
    IF ~Truthy(el.dataset.addAttrs) THEN Result(FALSE, svg, d)
    ELSE LET attrsArray == MatchPairs(el.dataset.addAttrs.v)
         IN  IF attrsArray = <<>> THEN Result(TRUE, svg, d)
             ELSE SetEach(svg, attrsArray, d)

W_width == <<"w","i","d","t","h">>
W_height == <<"h","e","i","g","h","t">>

setSvgSize(svg, el, d) ==
    IF ~Truthy(el.dataset.setSvgSize) THEN Result(FALSE, svg, d)
    ELSE IF svg = NullNode THEN Result(TRUE, svg, d)
    ELSE Result(FALSE,
                SetAttribute(SetAttribute(svg, W_width, NumberToString(el.width)),
                             W_height, NumberToString(el.height)),
                d)

\* if (imageEl.parentNode) parentNode.replaceChild(inlineSvg, imageEl)
SwapFirstPlaceholder(svg, e, d) ==
    IF \A i \in 1..Len(d) : d[i].kind # "img" THEN Result(FALSE, svg, d)
    ELSE IF svg = NullNode THEN Result(TRUE, svg, d)
    ELSE LET first == CHOOSE i \in 1..Len(d) :
                          /\ d[i].kind = "img"
                          /\ \A j \in 1..(i - 1) : d[j].kind # "img"
         IN  Result(FALSE, svg, [d EXCEPT ![first] = SvgEntry(e, svg)])
Swap(svg, e, d) ==
    IF HasParent(d, e) THEN ReplaceChild(d, svg, e) ELSE Result(FALSE, svg, d)

\* replaceImgWithSvg: the four steps in the code's order, then the swap; a
\* step that throws ends the function.
replaceImgWithSvgSizeFirst(svg, e, el, d) ==
    LET r1 == setSvgSize(svg, el, d)
        r2 == IF r1.threw THEN r1 ELSE removeAttrs(r1.svg, el, d)
        r3 == IF r2.threw THEN r2 ELSE removeScripts(r2.svg, el, d)
        r4 == IF r3.threw THEN r3 ELSE addAttrs(r3.svg, el, d)
    IN  IF r4.threw THEN r4 ELSE Swap(r4.svg, e, d)
replaceImgWithSvgAddFirst(svg, e, el, d) ==
    LET r1 == addAttrs(svg, el, d)
        r2 == IF r1.threw THEN r1 ELSE removeAttrs(r1.svg, el, d)
        r3 == IF r2.threw THEN r2 ELSE removeScripts(r2.svg, el, d)
        r4 == IF r3.threw THEN r3 ELSE setSvgSize(r3.svg, el, d)
    IN  IF r4.threw THEN r4 ELSE Swap(r4.svg, e, d)
replaceImgWithSvg(svg, e, el, d) ==
    LET r1 == removeAttrs(svg, el, d)
        r2 == IF r1.threw THEN r1 ELSE removeScripts(r1.svg, el, d)
        r3 == IF r2.threw THEN r2 ELSE addAttrs(r2.svg, el, d)
        r4 == IF r3.threw THEN r3 ELSE setSvgSize(r3.svg, el, d)
    IN  IF r4.threw THEN r4 ELSE Swap(r4.svg, e, d)

\* ------------------------------------------------------------------ inputs

S_foo == <<"f","o","o">>
S_bar == <<"b","a","r">>
S_id == <<"i","d">>
S_onclick == <<"o","n","c","l","i","c","k">>
S_onload == <<"o","n","l","o","a","d">>
S_true == <<"t","r","u","e">>

\* <svg foo="1" bar="2" onclick="x" width="10">
\*   <script/><g onload="y"><script/></g></svg>
ScriptedSvg ==
    Node("svg",
         [n \in {S_foo, S_bar, S_onclick, W_width} |->
            IF n = S_foo THEN <<"1">>
            ELSE IF n = S_bar THEN <<"2">>
            ELSE IF n = S_onclick THEN <<"x">>
            ELSE <<"1","0">>],
         << Node("script", NoAttrs, <<>>),
            Node("g", [n \in {S_onload} |-> <<"y">>],
                 << Node("script", NoAttrs, <<>>) >>) >>)

\* <svg id="a"><path/></svg>
PlainSvg ==
    Node("svg", [n \in {S_id} |-> <<"a">>], << Node("path", NoAttrs, <<>>) >>)

\* The texts a response may hold, each as the elements DOMParser builds from
\* it: an element that is no svg, an svg at the top, an svg nested in
\* another element.
Texts ==
    { << Node("p", NoAttrs, <<>>) >>,
      << ScriptedSvg >>,
      << Node("div", NoAttrs, << PlainSvg >>) >> }

\* data-remove-attrs: absent, "foo", "foo \r,\u00A0width,nope"
RemoveAttrsValues ==
    { Absent,
      Data(S_foo),
      Data(<<"f","o","o"," ","\r",",","U+00A0","w","i","d","t","h",",",
             "n","o","p","e">>) }

\* data-add-attrs: absent, "data-x:\r1,\fdata-y: 2", "foo:9,width:5", "foo",
\* "onclick: go", " : 1", "foo:1,foo:2"
AddAttrsValues ==
    { Absent,
      Data(<<"d","a","t","a","-","x",":","\r","1",",","\f",
             "d","a","t","a","-","y",":"," ","2">>),
      Data(<<"f","o","o",":","9",",","w","i","d","t","h",":","5">>),
      Data(S_foo),
      Data(<<"o","n","c","l","i","c","k",":"," ","g","o">>),
      Data(<<" ",":"," ","1">>),
      Data(<<"f","o","o",":","1",",","f","o","o",":","2">>) }

\* data-set-svg-size: absent, "true", "" (present and falsy)
SetSvgSizeValues == { Absent, Data(S_true), Data(<<>>) }

\* data-remove-scripts: absent, "true"
RemoveScriptsValues == { Absent, Data(S_true) }

Config(rm, add, size, scripts) ==
    [removeAttrs |-> rm, addAttrs |-> add, setSvgSize |-> size,
     removeScripts |-> scripts]

\* Every combination of the four optional data attributes.
AllConfigs ==
    { Config(rm, add, size, scripts) :
        rm \in RemoveAttrsValues, add \in AddAttrsValues,
        size \in SetSvgSizeValues, scripts \in RemoveScriptsValues }

\* The combinations used when several placeholders run at once: none of the
\* attributes, and all of them.
CoreConfigs ==
    { Config(Absent, Absent, Absent, Absent),
      Config(Data(S_foo), Data(<<"f","o","o",":","9",",","w","i","d","t","h",":","5">>),
             Data(S_true), Data(S_true)) }

\* data-src of placeholder e
Url(e) == <<"/">> \o NumberToString(e)

\* Placeholder e as it stands in the page before the widget runs.
Placeholder(e, cfg) ==
    [dataset |-> [src |-> Data(Url(e)),
                  removeAttrs |-> cfg.removeAttrs,
                  addAttrs |-> cfg.addAttrs,
                  setSvgSize |-> cfg.setSvgSize,
                  removeScripts |-> cfg.removeScripts],
     width |-> 64,
     height |-> 32,
     classList |-> {"js-lazy-inline-svg"}]

\* One observer entry
Entry(b) == [isIntersecting |-> b]

\* The batches of entries one delivery of the callback may hold.
Batches ==
    UNION { [1..n -> {Entry(TRUE), Entry(FALSE)}] : n \in 1..MaxBatch }

\* ------------------------------------------------------------------- state

VARIABLES
    variant,      \* "A" (part_000) or "B" (webpack.config.js)
    doc,          \* the children of the placeholders' parent, in order
    elements,     \* each placeholder: dataset, width, height, classList
    constructed,  \* how many times the page called the constructor
    observers,    \* per placeholder, how many IntersectionObservers were
                  \* created for it; they are numbered 1..observers[e]
    observed,     \* per placeholder, the observers still observing it
    pipelines,    \* per placeholder, the getSvg calls made for it, in order
    inlineSvg,    \* variant A: per placeholder, this.inlineSvg of each of
                  \* its instances (the instance of observer j at j)
    errors,       \* per placeholder, the console.error calls of its getSvg calls
    reports,      \* per placeholder, what its observer's callback was given so
                  \* far: "none", "away" (only entries that do not intersect)
                  \* or "seen" (an intersecting entry)
    removed       \* the placeholders the page itself keeps or took out of the
                  \* document

vars == <<variant, doc, elements, constructed, observers, observed, pipelines,
          inlineSvg, errors, reports, removed>>

\* A getSvg call: where it stands (awaiting fetch, awaiting response.text(),
\* returned), the URL it fetched, how it ended, the state of the promise it
\* returned, the text it read, the observer whose callback made the call,
\* and whether that observer was still observing the placeholder when the
\* call added the loading class and issued the request.
NewPipeline(url, observer, observing) ==
    [pc |-> "fetch", url |-> url, outcome |-> "pending", promise |-> "pending",
     text |-> <<>>, observer |-> observer, observing |-> observing]

InitWith(d, els) ==
    /\ variant \in {"A", "B"}
    /\ doc = d
    /\ elements = els
    /\ constructed = 0
    /\ observers = [e \in Elems |-> 0]
    /\ observed = [e \in Elems |-> {}]
    /\ pipelines = [e \in Elems |-> <<>>]
    /\ inlineSvg = [e \in Elems |-> <<>>]
    /\ errors = [e \in Elems |-> 0]
    /\ reports = [e \in Elems |-> "none"]
    /\ removed = {e \in Elems : ~IsChild(d, e)}

\* Every placeholder is in the document, each with one of CoreConfigs.
Init ==
    \E cfg \in [Elems -> CoreConfigs] :
        InitWith([i \in 1..NElems |-> ImgEntry(i)],
                 [e \in Elems |-> Placeholder(e, cfg[e])])

\* One placeholder is in the document, between two other nodes, with any of
\* AllConfigs.
InitOne ==
    \E cfg \in AllConfigs :
        InitWith(<<OtherEntry, ImgEntry(1), OtherEntry>>,
                 [e \in Elems |->
                    Placeholder(e, IF e = 1 THEN cfg
                                   ELSE Config(Absent, Absent, Absent, Absent))])

\* ----------------------------------------------------------------- actions

\* The page removes a placeholder from the document.
ExternalDetach(e) ==
    /\ IsChild(doc, e)
    /\ doc' = RemoveAt(doc, IndexOf(doc, e))
    /\ removed' = removed \cup {e}
    /\ UNCHANGED <<variant, elements, constructed, observers, observed,
                   pipelines, inlineSvg, errors, reports>>

\* The constructor's argument when it is the class name of the placeholders
\* (the default); an element is given as its number.
Selector == 0

\* What the constructor may be given: the selector, and in variant A an
\* element as well.
Targets(v) == IF v = "A" THEN {Selector} \cup Elems ELSE {Selector}

\* checkBeforeInit / init: the placeholders addInlineSvgObserver is called
\* for: those the selector matches, or the element given.
checkBeforeInit(target, d) ==
    IF target = Selector THEN querySelectorAll(d) ELSE {target}

\* new InlineSvgLazyLoader(target): addInlineSvgObserver creates and starts
\* one more observer for each placeholder found; in variant A each has its
\* own instance, whose inlineSvg is null.
Construct(target) ==
    /\ constructed < MaxConstructs
    /\ target \in Targets(variant)
    /\ constructed' = constructed + 1
    /\ LET found == checkBeforeInit(target, doc)
       IN  /\ observers' = [e \in Elems |->
                              IF e \in found THEN observers[e] + 1 ELSE observers[e]]
           /\ observed' = [e \in Elems |->
                              IF e \in found
                              THEN observed[e] \cup {observers[e] + 1}
                              ELSE observed[e]]
           /\ inlineSvg' = [e \in Elems |->
                              IF e \in found THEN Append(inlineSvg[e], NullNode)
                              ELSE inlineSvg[e]]
    /\ UNCHANGED <<variant, doc, elements, pipelines, errors, reports, removed>>

\* The body of entries.forEach in the callback of observer j, on the state
\* the callback touches: for an intersecting entry getSvg runs up to its
\* first await (the loading class is added, the fetch is issued) and then the
\* placeholder is unobserved by this observer.
onEntryAlways(entry, st, url) ==
    [classList |-> st.classList \cup {LoadingClass},
     pipes |-> Append(st.pipes, NewPipeline(url, st.observer, st.observing)),
     observer |-> st.observer,
     observing |-> FALSE]
onEntryNoUnobserve(entry, st, url) ==
    IF entry.isIntersecting
    THEN [classList |-> st.classList \cup {LoadingClass},
          pipes |-> Append(st.pipes, NewPipeline(url, st.observer, st.observing)),
          observer |-> st.observer,
          observing |-> st.observing]
    ELSE st
onEntry(entry, st, url) ==
    IF entry.isIntersecting
    THEN [classList |-> st.classList \cup {LoadingClass},
          pipes |-> Append(st.pipes, NewPipeline(url, st.observer, st.observing)),
          observer |-> st.observer,
          observing |-> FALSE]
    ELSE st

RECURSIVE forEachEntry(_, _, _)
forEachEntry(entries, st, url) ==
    IF entries = <<>> THEN st
    ELSE forEachEntry(Tail(entries), onEntry(Head(entries), st, url), url)

\* The getSvg calls made so far for the placeholders of E.
RECURSIVE CallsMade(_)
CallsMade(E) ==
    IF E = {} THEN 0
    ELSE LET e == CHOOSE x \in E : TRUE
         IN  Len(pipelines[e]) + CallsMade(E \ {e})

\* The browser delivers a batch of entries to observer j of placeholder e.
IntersectionCallback(e, j, entries) ==
    /\ j \in observed[e]
    /\ LET st == forEachEntry(entries,
                              [classList |-> elements[e].classList,
                               pipes |-> pipelines[e],
                               observer |-> j,
                               observing |-> TRUE],
                              elements[e].dataset.src.v)
       IN  /\ CallsMade(Elems \ {e}) + Len(st.pipes) <= MaxCalls
           /\ elements' = [elements EXCEPT ![e].classList = st.classList]
           /\ pipelines' = [pipelines EXCEPT ![e] = st.pipes]
           /\ observed' = IF st.observing THEN observed
                          ELSE [observed EXCEPT ![e] = @ \ {j}]
    /\ reports' = [reports EXCEPT ![e] =
                      IF \/ \E i \in 1..Len(entries) : entries[i].isIntersecting
                         \/ @ = "seen"
                      THEN "seen" ELSE "away"]
    /\ UNCHANGED <<variant, doc, constructed, observers, inlineSvg, errors, removed>>

\* try/catch of getSvg: an exception thrown in the try block is caught and
\* logged with console.error; the promise getSvg returned is fulfilled.
tryCatchNoHandler(threw, errs) ==
    [errors |-> errs, promise |-> IF threw THEN "rejected" ELSE "fulfilled"]
tryCatch(threw, errs) ==
    [errors |-> IF threw THEN errs + 1 ELSE errs, promise |-> "fulfilled"]

\* finally of getSvg: variant A removes the loading class, variant B has no
\* finally block.
finallyBlock(v, classList) ==
    IF v = "A" THEN classList \ {LoadingClass} ELSE classList

\* getSvg call k of placeholder e returns: how it ended, whether it threw.
Conclude(e, k, outcome, threw, text) ==
    LET c == tryCatch(threw, errors[e])
    IN  /\ pipelines' = [pipelines EXCEPT ![e][k] =
                            [@ EXCEPT !.pc = "done", !.outcome = outcome,
                                      !.promise = c.promise, !.text = text]]
        /\ errors' = [errors EXCEPT ![e] = c.errors]
        /\ elements' = [elements EXCEPT ![e].classList =
                            finallyBlock(variant, @)]

Awaiting(e, k, pc) ==
    /\ k \in 1..Len(pipelines[e])
    /\ pipelines[e][k].pc = pc

\* await fetch(src) resolves with a response; response.ok decides.
FetchResolves(e, k, ok) ==
    /\ Awaiting(e, k, "fetch")
    /\ IF ok
       THEN /\ pipelines' = [pipelines EXCEPT ![e][k].pc = "text"]
            /\ UNCHANGED <<elements, errors>>
       ELSE Conclude(e, k, "not-ok", FALSE, <<>>)
    /\ UNCHANGED <<variant, doc, constructed, observers, observed, inlineSvg,
                   reports, removed>>

\* await fetch(src) throws.
FetchRejects(e, k) ==
    /\ Awaiting(e, k, "fetch")
    /\ Conclude(e, k, "fetch-threw", TRUE, <<>>)
    /\ UNCHANGED <<variant, doc, constructed, observers, observed, inlineSvg,
                   reports, removed>>

\* await response.text() throws.
TextRejects(e, k) ==
    /\ Awaiting(e, k, "text")
    /\ Conclude(e, k, "text-threw", TRUE, <<>>)
    /\ UNCHANGED <<variant, doc, constructed, observers, observed, inlineSvg,
                   reports, removed>>

\* await response.text() resolves: the text is parsed, sanitized and swapped
\* in, all before the next await.
TextResolves(e, k, text) ==
    /\ Awaiting(e, k, "text")
    /\ LET r == replaceImgWithSvg(parseSvgStringToHtml(text), e, elements[e], doc)
       IN  /\ doc' = r.doc
           /\ inlineSvg' = IF variant = "A"
                           THEN [inlineSvg EXCEPT
                                    ![e][pipelines[e][k].observer] = r.svg]
                           ELSE inlineSvg
           /\ Conclude(e, k,
                       IF r.threw THEN "transform-threw"
                       ELSE IF HasParent(doc, e) THEN "swapped"
                       ELSE "abandoned",
                       r.threw, text)
    /\ UNCHANGED <<variant, constructed, observers, observed, reports, removed>>

\* The steps of a page that holds the placeholders of E and gives the
\* constructor the targets of T.
NextOf(E, T) ==
    \/ \E e \in E : ExternalDetach(e)
    \/ \E target \in T : Construct(target)
    \/ \E e \in E, j \in 1..MaxConstructs, entries \in Batches :
          IntersectionCallback(e, j, entries)
    \/ \E e \in E, k \in 1..MaxCalls, ok \in BOOLEAN : FetchResolves(e, k, ok)
    \/ \E e \in E, k \in 1..MaxCalls : FetchRejects(e, k)
    \/ \E e \in E, k \in 1..MaxCalls : TextRejects(e, k)
    \/ \E e \in E, k \in 1..MaxCalls, text \in Texts : TextResolves(e, k, text)

Next == NextOf(Elems, {Selector} \cup Elems)

\* The page holds placeholder 1 only.
NextOne == NextOf({1}, {Selector, 1})

\* Several placeholders, a few configurations.
Spec == Init /\ [][Next]_vars

\* One placeholder, every configuration.
SpecOne == InitOne /\ [][NextOne]_vars

\* ------------------------------------------------------- claims: vocabulary

Calls(e) == 1..Len(pipelines[e])

\* getSvg call k of placeholder e returns in this step.
Returns(e, k) ==
    /\ k \in Calls(e)
    /\ pipelines[e][k].pc # "done"
    /\ pipelines'[e][k].pc = "done"

\* An SVG root stands in the document in place of placeholder e.
Replaced(e) == \E i \in 1..Len(doc) : doc[i].kind = "svg" /\ doc[i].id = e

\* Placeholder e is where the page put it, or the page itself removed it.
Untouched(e) == (IsChild(doc, e) \/ e \in removed) /\ ~Replaced(e)

\* The text holds an svg element.
HasSvg(text) == HasDescendant(text, "svg")

\* The names and values the addition list sets, pair by pair.
AddedPairs(el) ==
    IF Truthy(el.dataset.addAttrs) THEN MatchPairs(el.dataset.addAttrs.v) ELSE <<>>
PairName(pair) == Trim(Split(pair, ":")[1])
PairValue(pair) == Trim(Split(pair, ":")[2])
AddedNames(el) == {PairName(AddedPairs(el)[i]) : i \in 1..Len(AddedPairs(el))}

\* The names of the removal list.
RemovedNames(el) ==
    IF Truthy(el.dataset.removeAttrs)
    THEN LET names == Split(el.dataset.removeAttrs.v, ",")
         IN  {Trim(names[i]) : i \in 1..Len(names)}
    ELSE {}

\* The addition list is absent, or it holds pairs and every name is one
\* setAttribute accepts.
WellFormed(el) ==
    \/ ~Truthy(el.dataset.addAttrs)
    \/ /\ AddedPairs(el) # <<>>
       /\ \A n \in AddedNames(el) : ValidAttrName(n)

\* ------------------------------------------------------------------ claims

\* C1 (as claimed): at most one fetch is ever issued for a placeholder,
\* whatever entries its observer is given and however its fetches end.
C1_AtMostOneFetch ==
    \A e \in Elems : Len(pipelines[e]) <= 1

\* C2: as long as no intersecting entry was reported for a placeholder, no
\* fetch was issued for it, it does not carry the loading class, its
\* observer still observes it, and the document holds it unchanged (unless
\* the page removed it) and holds no SVG in its place.
C2_NoFetchWithoutIntersection ==
    \A e \in Elems :
        reports[e] # "seen" =>
            /\ pipelines[e] = <<>>
            /\ LoadingClass \notin elements[e].classList
            /\ observed[e] = 1..observers[e]
            /\ Untouched(e)
            /\ errors[e] = 0

\* C2 witness: a placeholder that got only non-intersecting entries, is
\* still observed and in the document.
C2_Witness ==
    \E e \in Elems : reports[e] = "away" /\ observed[e] # {} /\ IsChild(doc, e)

\* C3 (as claimed), for a placeholder with one getSvg call: in both variants
\* the placeholder carries the loading class while the request is in flight
\* and does not carry it once the attempt has concluded.
C3_LoadingClassCleared ==
    \A e \in Elems :
        Len(pipelines[e]) = 1 =>
            IF pipelines[e][1].pc # "done"
            THEN LoadingClass \in elements[e].classList
            ELSE LoadingClass \notin elements[e].classList

\* C4 (as claimed): in both variants, after a non-ok response the
\* placeholder is in the document (unless the page removed it), nothing is
\* inserted, no sanitize step ran, nothing is logged, and the placeholder's
\* class list is what it was before the attempt (no loading class).
C4_NotOkLeavesPlaceholder ==
    \A e \in Elems :
        (Len(pipelines[e]) = 1 /\ pipelines[e][1].outcome = "not-ok") =>
            /\ Untouched(e)
            /\ \A j \in 1..Len(inlineSvg[e]) : inlineSvg[e][j] = NullNode
            /\ errors[e] = 0
            /\ elements[e].classList = {"js-lazy-inline-svg"}

\* C5: the step in which a getSvg call ends because fetch or response.text()
\* threw leaves the document as it is, logs exactly one diagnostic for that
\* placeholder, and fulfils (does not reject) the promise getSvg returned.
C5_ThrownFetchLoggedOnce ==
    [][\A e \in Elems : \A k \in 1..MaxCalls :
          (Returns(e, k) /\ pipelines'[e][k].outcome \in {"fetch-threw", "text-threw"})
          => /\ doc' = doc
             /\ errors'[e] = errors[e] + 1
             /\ \A o \in Elems \ {e} : errors'[o] = errors[o]
             /\ pipelines'[e][k].promise = "fulfilled"]_vars

\* C5 witness: a fetch threw, the placeholder is still in the document and
\* one diagnostic is logged for it.
C5_Witness ==
    \E e \in Elems :
        /\ Len(pipelines[e]) = 1
        /\ pipelines[e][1].outcome \in {"fetch-threw", "text-threw"}
        /\ IsChild(doc, e)
        /\ errors[e] = 1

\* C6: when the response text is read while the placeholder has no parent,
\* the swap leaves the document as it is and the placeholder stays out of
\* it; and nothing is thrown or logged on account of the detachment: with an
\* svg in the text and a well-formed addition list, or with no svg and no
\* data attribute to apply, the call ends without a diagnostic.
C6_DetachedSwapIsNoOp ==
    [][\A e \in Elems : \A k \in 1..MaxCalls :
          (/\ Returns(e, k)
           /\ pipelines[e][k].pc = "text"
           /\ pipelines'[e][k].outcome # "text-threw"
           /\ ~IsChild(doc, e))
          => /\ doc' = doc
             /\ ~IsChild(doc', e)
             /\ (HasSvg(pipelines'[e][k].text) /\ WellFormed(elements[e]))
                   => (errors'[e] = errors[e] /\ pipelines'[e][k].outcome = "abandoned")
             /\ (/\ ~HasSvg(pipelines'[e][k].text)
                 /\ ~Truthy(elements[e].dataset.removeAttrs)
                 /\ ~Truthy(elements[e].dataset.removeScripts)
                 /\ ~Truthy(elements[e].dataset.addAttrs)
                 /\ ~Truthy(elements[e].dataset.setSvgSize))
                   => (errors'[e] = errors[e] /\ pipelines'[e][k].outcome = "abandoned")]_vars

\* C6 witness: the page removed the placeholder while its request was in
\* flight, and the call ended without swapping and without a diagnostic.
C6_Witness ==
    \E e \in Elems :
        /\ e \in removed
        /\ Len(pipelines[e]) = 1
        /\ pipelines[e][1].outcome = "abandoned"
        /\ HasSvg(pipelines[e][1].text)
        /\ errors[e] = 0

\* C7 (as claimed): with script removal enabled, an SVG substituted into the
\* document has no script descendant and its root has no attribute whose
\* name starts with "on", whatever the other data attributes are.
C7_NoScriptNoOn ==
    \A i \in 1..Len(doc) :
        (doc[i].kind = "svg" /\ Truthy(elements[doc[i].id].dataset.removeScripts)) =>
            /\ ~HasDescendant(doc[i].node.kids, "script")
            /\ \A n \in DOMAIN doc[i].node.attrs : ~StartsWithOn(n)

\* C7 (amended): with script removal enabled, an SVG substituted into the
\* document has no script descendant, and every attribute of its root whose
\* name starts with "on" is one the placeholder's own addition list sets.
C7_NoScriptNoFetchedOn ==
    \A i \in 1..Len(doc) :
        (doc[i].kind = "svg" /\ Truthy(elements[doc[i].id].dataset.removeScripts)) =>
            /\ ~HasDescendant(doc[i].node.kids, "script")
            /\ \A n \in DOMAIN doc[i].node.attrs :
                  StartsWithOn(n) => n \in AddedNames(elements[doc[i].id])

\* C7 witness: a fetched SVG with a script child, a script grandchild and an
\* onclick on its root was substituted with script removal enabled.
C7_Witness ==
    \E e \in Elems :
        /\ Truthy(elements[e].dataset.removeScripts)
        /\ Replaced(e)
        /\ \E k \in Calls(e) :
              /\ pipelines[e][k].outcome = "swapped"
              /\ pipelines[e][k].text = << ScriptedSvg >>

\* C8: when the text read holds an svg, the addition list is well formed and
\* the placeholder is attached, the step that reads the text ends the call
\* with the placeholder out of the document and an svg root at the
\* placeholder's index, every other child of the parent where it was.
C8_SwapInPlace ==
    [][\A e \in Elems : \A k \in 1..MaxCalls :
          (/\ Returns(e, k)
           /\ pipelines[e][k].pc = "text"
           /\ pipelines'[e][k].outcome # "text-threw"
           /\ HasSvg(pipelines'[e][k].text)
           /\ WellFormed(elements[e])
           /\ IsChild(doc, e))
          => /\ pipelines'[e][k].outcome = "swapped"
             /\ ~IsChild(doc', e)
             /\ Len(doc') = Len(doc)
             /\ \A j \in 1..Len(doc) :
                   IF j = IndexOf(doc, e)
                   THEN /\ doc'[j].kind = "svg"
                        /\ doc'[j].id = e
                        /\ doc'[j].node.tag = "svg"
                   ELSE doc'[j] = doc[j]]_vars

\* C8 witness: the placeholder between two other nodes was replaced, the SVG
\* standing between the same two nodes.
C8_Witness ==
    /\ Len(doc) = 3
    /\ doc[1] = OtherEntry
    /\ doc[2].kind = "svg"
    /\ doc[3] = OtherEntry

\* C9 (as claimed): with an addition list from which no pair is matched, the
\* add step throws nothing and the call goes on: once the text with an svg
\* is read the call ends swapped (or abandoned, the placeholder detached)
\* and logs nothing.
C9_NoPairIsNoOp ==
    \A e \in Elems : \A k \in Calls(e) :
        (/\ Truthy(elements[e].dataset.addAttrs)
         /\ MatchPairs(elements[e].dataset.addAttrs.v) = <<>>
         /\ pipelines[e][k].pc = "done"
         /\ HasSvg(pipelines[e][k].text))
        => /\ pipelines[e][k].outcome \in {"swapped", "abandoned"}
           /\ errors[e] = 0

\* The value of the last pair of the addition list that sets name.
LastAddedValue(el, name) ==
    LET pairs == AddedPairs(el)
        last == CHOOSE i \in 1..Len(pairs) :
                    /\ PairName(pairs[i]) = name
                    /\ \A j \in (i + 1)..Len(pairs) : PairName(pairs[j]) # name
    IN  PairValue(pairs[last])

\* The values the addition list gives name.
AddedValues(el, name) ==
    {PairValue(AddedPairs(el)[i]) :
        i \in {j \in 1..Len(AddedPairs(el)) : PairName(AddedPairs(el)[j]) = name}}

\* C10 (as claimed): every name that is both in the removal list and in the
\* addition list is an attribute of the substituted SVG root, with the value
\* from the addition list.
C10_AddedSurvivesRemoval ==
    \A i \in 1..Len(doc) :
        doc[i].kind = "svg" =>
            \A n \in RemovedNames(elements[doc[i].id]) \cap AddedNames(elements[doc[i].id]) :
                /\ n \in DOMAIN doc[i].node.attrs
                /\ doc[i].node.attrs[n] \in AddedValues(elements[doc[i].id], n)

\* C10 (amended): every name that is both in the removal list and in the
\* addition list is an attribute of the substituted SVG root; its value is
\* the one its last pair in the addition list gives, except that width and
\* height hold the placeholder's rendered size when size propagation is
\* enabled.
C10_AddedSurvivesRemovalUnlessSized ==
    \A i \in 1..Len(doc) :
        doc[i].kind = "svg" =>
            LET el == elements[doc[i].id]
            IN  \A n \in RemovedNames(el) \cap AddedNames(el) :
                    /\ n \in DOMAIN doc[i].node.attrs
                    /\ doc[i].node.attrs[n] =
                          IF Truthy(el.dataset.setSvgSize) /\ n = W_width
                          THEN NumberToString(el.width)
                          ELSE IF Truthy(el.dataset.setSvgSize) /\ n = W_height
                          THEN NumberToString(el.height)
                          ELSE LastAddedValue(el, n)

\* C10 witness: an SVG that had foo="1" was substituted for a placeholder
\* whose removal list and addition list both name foo.
C10_Witness ==
    \E i \in 1..Len(doc) :
        /\ doc[i].kind = "svg"
        /\ S_foo \in RemovedNames(elements[doc[i].id]) \cap AddedNames(elements[doc[i].id])
        /\ \E k \in Calls(doc[i].id) :
              /\ pipelines[doc[i].id][k].outcome = "swapped"
              /\ pipelines[doc[i].id][k].text = << ScriptedSvg >>

\* The text read by the call that swapped the SVG in for placeholder e, and
\* the svg root parsed from it.
SwappedText(e) ==
    pipelines[e][CHOOSE k \in Calls(e) : pipelines[e][k].outcome = "swapped"].text
FetchedRoot(e) == QuerySelector(SwappedText(e), "svg")

\* The names the size step sets for this placeholder.
SizedNames(el) ==
    IF Truthy(el.dataset.setSvgSize) THEN {W_width, W_height} ELSE {}

\* C11: with size propagation enabled (a truthy data-set-svg-size) the
\* substituted root's width and height are the placeholder's rendered width
\* and height, whatever the fetched SVG had and whatever the removal and
\* addition lists name; with it not enabled width and height are what the
\* earlier steps left: the last added value, else absent when listed for
\* removal, else as fetched.
C11_SizeSetLast ==
    \A i \in 1..Len(doc) :
        doc[i].kind = "svg" =>
            LET el == elements[doc[i].id]
                root == doc[i].node
                fetched == FetchedRoot(doc[i].id)
                size(n) == IF n = W_width THEN el.width ELSE el.height
            IN  \A n \in {W_width, W_height} :
                    IF Truthy(el.dataset.setSvgSize)
                    THEN n \in DOMAIN root.attrs /\ root.attrs[n] = NumberToString(size(n))
                    ELSE IF n \in AddedNames(el)
                    THEN n \in DOMAIN root.attrs /\ root.attrs[n] = LastAddedValue(el, n)
                    ELSE IF n \in RemovedNames(el) \/ n \notin DOMAIN fetched.attrs
                    THEN n \notin DOMAIN root.attrs
                    ELSE n \in DOMAIN root.attrs /\ root.attrs[n] = fetched.attrs[n]

\* C11 witness: an SVG fetched with width="10" was substituted for a
\* placeholder with size propagation enabled whose removal list and addition
\* list both name width.
C11_Witness ==
    \E i \in 1..Len(doc) :
        /\ doc[i].kind = "svg"
        /\ Truthy(elements[doc[i].id].dataset.setSvgSize)
        /\ W_width \in RemovedNames(elements[doc[i].id]) \cap AddedNames(elements[doc[i].id])
        /\ FetchedRoot(doc[i].id).attrs[W_width] = <<"1","0">>
        /\ doc[i].node.attrs[W_width] = <<"6","4">>
        /\ doc[i].node.attrs[W_height] = <<"3","2">>

\* C12: for every text with an svg root that a call read, the remove step
\* throws nothing and leaves a root whose attributes are the fetched ones
\* without the trimmed names of the list, each with its fetched value, and
\* whose children are untouched; in the substituted SVG a listed name that no
\* later step sets is absent, and a fetched attribute that is not listed and
\* that no other step removes or sets keeps its value.
C12_RemoveListedOnly ==
    /\ \A e \in Elems : \A k \in Calls(e) :
          (pipelines[e][k].pc = "done" /\ HasSvg(pipelines[e][k].text)) =>
              LET svg == QuerySelector(pipelines[e][k].text, "svg")
                  r == removeAttrs(svg, elements[e], doc)
              IN  /\ ~r.threw
                  /\ r.doc = doc
                  /\ r.svg.kids = svg.kids
                  /\ DOMAIN r.svg.attrs = (DOMAIN svg.attrs) \ RemovedNames(elements[e])
                  /\ \A n \in DOMAIN r.svg.attrs : r.svg.attrs[n] = svg.attrs[n]
    /\ \A i \in 1..Len(doc) :
          doc[i].kind = "svg" =>
              LET el == elements[doc[i].id]
                  root == doc[i].node
                  fetched == FetchedRoot(doc[i].id)
                  later == AddedNames(el) \cup SizedNames(el)
              IN  /\ \A n \in RemovedNames(el) \ later : n \notin DOMAIN root.attrs
                  /\ \A n \in (DOMAIN fetched.attrs) \ (RemovedNames(el) \cup later) :
                        \/ Truthy(el.dataset.removeScripts) /\ StartsWithOn(n)
                        \/ n \in DOMAIN root.attrs /\ root.attrs[n] = fetched.attrs[n]

\* C12 witness: an SVG fetched with foo="1" bar="2" width="10" was substituted
\* for a placeholder whose removal list is "foo , width,nope" and that adds
\* nothing: foo and width are gone, bar is kept.
C12_Witness ==
    \E i \in 1..Len(doc) :
        /\ doc[i].kind = "svg"
        /\ RemovedNames(elements[doc[i].id]) = {S_foo, W_width, <<"n","o","p","e">>}
        /\ AddedNames(elements[doc[i].id]) = {}
        /\ SizedNames(elements[doc[i].id]) = {}
        /\ SwappedText(doc[i].id) = << ScriptedSvg >>
        /\ S_foo \notin DOMAIN doc[i].node.attrs
        /\ W_width \notin DOMAIN doc[i].node.attrs
        /\ doc[i].node.attrs[S_bar] = <<"2">>

\* The placeholders the selector matches: those that are in the document.
Matched == {e \in Elems : \E i \in 1..Len(doc) : doc[i] = ImgEntry(e)}

\* C13: a construction with the selector creates exactly one more observer
\* registration for each of the n placeholders the selector matches and no
\* other one (none for a target that is not a matched placeholder, such as
\* the instance holding the selector), and it issues no fetch, changes
\* nothing in the document or in the placeholders and logs nothing; with
\* n = 0 it changes nothing at all but the count of constructions; and as
\* long as no observer was created for a placeholder there is no fetch, no
\* loading class, no diagnostic and no SVG for it.
C13_OneObserverPerMatch ==
    [][ /\ Construct(Selector) =>
            /\ \A e \in Elems :
                  /\ observers'[e] = observers[e] + (IF e \in Matched THEN 1 ELSE 0)
                  /\ observed'[e] =
                        observed[e] \cup (IF e \in Matched THEN {observers'[e]} ELSE {})
                  /\ e \in Matched => observers'[e] \notin observed[e]
            /\ DOMAIN observers' = Elems
            /\ doc' = doc
            /\ elements' = elements
            /\ pipelines' = pipelines
            /\ errors' = errors
            /\ Matched = {} =>
                  /\ observers' = observers
                  /\ observed' = observed
                  /\ inlineSvg' = inlineSvg
        /\ \A e \in Elems :
              observers'[e] = 0 =>
                  /\ observed'[e] = {}
                  /\ pipelines'[e] = <<>> /\ errors'[e] = 0
                  /\ LoadingClass \notin elements'[e].classList
                  /\ \A i \in 1..Len(doc') : ~(doc'[i].kind = "svg" /\ doc'[i].id = e)
      ]_vars

\* C13 witness: the widget was constructed once, with the selector, when the
\* page had removed placeholder 1 and kept the others: there is one observer
\* for each of the others and none for placeholder 1.
C13_Witness ==
    /\ variant = "B"
    /\ constructed = 1
    /\ removed = {1}
    /\ observers = [e \in Elems |-> IF e = 1 THEN 0 ELSE 1]
    /\ observed = [e \in Elems |-> IF e = 1 THEN {} ELSE {1}]
    /\ \A e \in Elems : pipelines[e] = <<>>

\* The n = 0 case of C13: constructed over a document without placeholders.
C13_NoMatch ==
    /\ variant = "B"
    /\ constructed > 0
    /\ removed = Elems
    /\ \A e \in Elems : observers[e] = 0

\* C14: when a call reads a text without an svg element while its
\* placeholder is in the document, whatever the placeholder's data
\* attributes are, the call returns in that step with the document unchanged
\* (the placeholder at its position, nothing inserted), exactly one more
\* diagnostic logged, and its promise fulfilled.
C14_NoSvgRootAborts ==
    [][ \A e \in Elems : \A k \in Calls(e) :
            ( /\ Returns(e, k)
              /\ pipelines[e][k].pc = "text"
              /\ pipelines'[e][k].outcome # "text-threw"
              /\ ~HasSvg(pipelines'[e][k].text)
              /\ IsChild(doc, e) ) =>
                /\ doc' = doc
                /\ IsChild(doc', e)
                /\ ~Replaced(e)'
                /\ errors'[e] = errors[e] + 1
                /\ pipelines'[e][k].promise = "fulfilled"
                /\ pipelines'[e][k].outcome = "transform-threw"
      ]_vars

\* C14 witness: a call of a placeholder with no data attribute besides the
\* URL read a text without an svg element; the placeholder is in the
\* document, no SVG is, and one diagnostic was logged.
C14_Witness ==
    \E e \in Elems :
        /\ elements[e].dataset = Placeholder(e, Config(Absent, Absent, Absent, Absent)).dataset
        /\ Len(pipelines[e]) = 1
        /\ pipelines[e][1].pc = "done"
        /\ pipelines[e][1].outcome = "transform-threw"
        /\ pipelines[e][1].promise = "fulfilled"
        /\ ~HasSvg(pipelines[e][1].text)
        /\ IsChild(doc, e)
        /\ ~Replaced(e)
        /\ errors[e] = 1

\* What placeholder e owns: its element, its calls, its diagnostics, its
\* instance's SVG, its observer registration and its node in the document.
Own(e) ==
    [element |-> elements[e], calls |-> pipelines[e], errors |-> errors[e],
     inlineSvg |-> inlineSvg[e], observers |-> observers[e],
     observed |-> observed[e],
     slots |-> {i \in 1..Len(doc) : doc[i].id = e},
     nodes |-> {doc[i] : i \in {j \in 1..Len(doc) : doc[j].id = e}}]

\* The outcome of the swap of text for placeholder e in a document that
\* holds nothing but e (when e is in the document) or nothing at all.
Alone(e, text) ==
    replaceImgWithSvg(parseSvgStringToHtml(text), e, elements[e],
                      IF IsChild(doc, e) THEN << ImgEntry(e) >> ELSE <<>>)

\* C15: a step of a call of one placeholder changes nothing the other
\* placeholders own, whatever calls they have in flight and however theirs
\* ended; a call that reads its text ends as it would with its placeholder
\* alone in the document (same exception or none, the same SVG put at the
\* placeholder's position or the document left as it is); and every SVG in
\* the document is the one made from the text that a call of its own
\* placeholder read.
C15_PipelinesIndependent ==
    [][ \A e \in Elems :
          /\ pipelines'[e] # pipelines[e] =>
                \A f \in Elems \ {e} : Own(f)' = Own(f)
          /\ \A k \in Calls(e) :
                ( /\ Returns(e, k)
                  /\ pipelines[e][k].pc = "text"
                  /\ pipelines'[e][k].outcome # "text-threw" ) =>
                    LET alone == Alone(e, pipelines'[e][k].text)
                    IN  /\ alone.threw <=> pipelines'[e][k].outcome = "transform-threw"
                        /\ IF alone.doc = << SvgEntry(e, alone.svg) >>
                           THEN doc' = [doc EXCEPT ![IndexOf(doc, e)] =
                                                       SvgEntry(e, alone.svg)]
                           ELSE doc' = doc
          /\ Replaced(e)' =>
                \E i \in 1..Len(doc') :
                    /\ doc'[i].id = e
                    /\ doc'[i].node =
                          replaceImgWithSvg(FetchedRoot(e)', e, elements'[e],
                                            << ImgEntry(e) >>).svg
      ]_vars

\* C15 witness: two placeholders with different data attributes; while the
\* call of the second is in flight, awaiting its text, the call of the first
\* has replaced the first by the SVG made from its own text with its own
\* attributes, which differs from what the second's attributes make, and the
\* second is untouched apart from its loading class.
C15_Witness ==
    /\ elements[1].dataset.removeAttrs # elements[2].dataset.removeAttrs
    /\ Len(pipelines[1]) = 1 /\ Len(pipelines[2]) = 1
    /\ pipelines[1][1].outcome = "swapped"
    /\ pipelines[1][1].text = << ScriptedSvg >>
    /\ pipelines[2][1].pc = "text"
    /\ doc[1] = SvgEntry(1, replaceImgWithSvg(ScriptedSvg, 1, elements[1],
                                              << ImgEntry(1) >>).svg)
    /\ doc[2] = ImgEntry(2)
    /\ doc[1].node #
          replaceImgWithSvg(ScriptedSvg, 1, elements[2], << ImgEntry(1) >>).svg

\* C16 (as claimed): the placeholder is already unobserved when its first
\* call adds the loading class and issues the request.
C16_UnobservedBeforeFetch ==
    \A e \in Elems : pipelines[e] # <<>> => ~pipelines[e][1].observing

\* C16 (amended): the first call an observer's callback makes adds the
\* loading class and issues the request while that observer still observes
\* the placeholder, and the observer's registration is released in the same
\* delivery, right after: the observer that made a call does not observe
\* the placeholder any more, it still exists, and a later call it made in
\* the same batch found it released.
C16_UnobservedRightAfterFetch ==
    \A e \in Elems : \A k \in Calls(e) :
        LET j == pipelines[e][k].observer
        IN  /\ j \in 1..observers[e]
            /\ j \notin observed[e]
            /\ pipelines[e][k].observing <=>
                  \A m \in 1..(k - 1) : pipelines[e][m].observer # j

\* C16 witness: one intersecting entry was delivered to the only observer of
\* a placeholder; the call it made is in flight, issued while observed, and
\* the placeholder is no longer observed.
C16_Witness ==
    \E e \in Elems :
        /\ reports[e] = "seen"
        /\ observers[e] = 1
        /\ Len(pipelines[e]) = 1
        /\ pipelines[e][1].pc = "fetch"
        /\ pipelines[e][1].observing
        /\ LoadingClass \in elements[e].classList
        /\ observed[e] = {}

\* The elements below a node that are not script elements nor inside one, in
\* document order, each with its tag and its attributes whose names start
\* with "on".
RECURSIVE OnAttrsBelow(_)
OnAttrsBelow(kids) ==
    IF kids = <<>> THEN <<>>
    ELSE LET h == Head(kids)
             own == [tag |-> h.tag,
                     on |-> [n \in {m \in DOMAIN h.attrs : StartsWithOn(m)} |->
                                h.attrs[n]]]
         IN  (IF h.tag = "script" THEN <<>> ELSE << own >> \o OnAttrsBelow(h.kids))
             \o OnAttrsBelow(Tail(kids))

\* C17: with script removal enabled, whatever the other data attributes,
\* the substituted SVG has below its root the same non-script elements as
\* the fetched SVG, each with the same on* attributes and values; of the
\* fetched root's own on* attributes none is left (only the addition list
\* can put one there).
C17_OnlyRootStripped ==
    \A i \in 1..Len(doc) :
        (doc[i].kind = "svg" /\ Truthy(elements[doc[i].id].dataset.removeScripts)) =>
            LET el == elements[doc[i].id]
                root == doc[i].node
                fetched == FetchedRoot(doc[i].id)
            IN  /\ OnAttrsBelow(root.kids) = OnAttrsBelow(fetched.kids)
                /\ \A n \in DOMAIN fetched.attrs :
                      (StartsWithOn(n) /\ n \notin AddedNames(el)) =>
                          n \notin DOMAIN root.attrs

\* C17 witness: an SVG fetched with onclick on its root and onload on a g
\* element below it was substituted with script removal enabled: the root
\* has no onclick, the g element still has onload="y".
C17_Witness ==
    \E i \in 1..Len(doc) :
        /\ doc[i].kind = "svg"
        /\ Truthy(elements[doc[i].id].dataset.removeScripts)
        /\ SwappedText(doc[i].id) = << ScriptedSvg >>
        /\ S_onclick \in DOMAIN FetchedRoot(doc[i].id).attrs
        /\ S_onclick \notin DOMAIN doc[i].node.attrs
        /\ \E j \in 1..Len(doc[i].node.kids) :
              /\ doc[i].node.kids[j].tag = "g"
              /\ S_onload \in DOMAIN doc[i].node.kids[j].attrs
              /\ doc[i].node.kids[j].attrs[S_onload] = <<"y">>

\* C18 (as claimed): one delivery of the observer callback issues at most
\* one fetch for the placeholder, whatever the batch holds.
C18_OneFetchPerDelivery ==
    [][ \A e \in Elems : Len(pipelines'[e]) <= Len(pipelines[e]) + 1 ]_vars

\* The positions of the document that hold placeholder e or an SVG put in
\* its place.
Slots(e) == {i \in 1..Len(doc) : doc[i].id = e}

\* C19: the document holds, between the two nodes that surround the
\* placeholder's slot, exactly one node for the placeholder (the placeholder
\* itself or one SVG substituted for it) unless the page removed the
\* placeholder, and then none; an SVG stands there only when exactly one
\* call swapped, also with two calls for the placeholder in flight at once
\* (made by one observer from one batch, or by the observers of two
\* constructions).
C19_OneNodePerSlot ==
    /\ doc[1] = OtherEntry
    /\ doc[Len(doc)] = OtherEntry
    /\ \A e \in Elems :
          /\ Cardinality(Slots(e)) = IF e \in removed THEN 0 ELSE 1
          /\ Len(doc) = 2 + Cardinality(Elems \ removed)
          /\ ~(IsChild(doc, e) /\ Replaced(e))
          /\ Replaced(e) <=>
                Cardinality({k \in Calls(e) : pipelines[e][k].outcome = "swapped"}) = 1
          /\ Cardinality({k \in Calls(e) : pipelines[e][k].outcome = "swapped"}) <= 1

\* C19 witness: the widget was constructed twice, each of the two observers
\* of the placeholder made a call, the two calls were in flight at once and
\* both read a text with an svg root; one swapped, the other found the
\* placeholder without a parent and was abandoned; the slot holds one SVG.
C19_Witness ==
    /\ constructed = 2
    /\ observers[1] = 2
    /\ Len(pipelines[1]) = 2
    /\ pipelines[1][1].observer # pipelines[1][2].observer
    /\ {pipelines[1][1].outcome, pipelines[1][2].outcome} = {"swapped", "abandoned"}
    /\ HasSvg(pipelines[1][1].text) /\ HasSvg(pipelines[1][2].text)
    /\ doc = << OtherEntry, SvgEntry(1, doc[2].node), OtherEntry >>
    /\ errors[1] = 0

====
